---- MODULE Spec2Model ----
(***************************************************************************)
(* Upload Gateway (monlai-dev/s3-image): an HTTP service that signs S3     *)
(* upload URLs and drives S3 multipart uploads.  Two builds of the same    *)
(* service are modelled side by side: src/main.go (the validating build)   *)
(* and src/unnamed/part_000 (the earlier, less strict build).  The         *)
(* variable `variant` says which build a behaviour runs.                   *)
(*                                                                         *)
(* Strings are TLA+ strings, except the partNumber query parameter, which  *)
(* is a sequence of one-character strings so that strconv.Atoi can be      *)
(* modelled digit by digit.  Go's int is 64 bits wide (amd64/arm64 build); *)
(* a 64-bit word is four 16-bit limbs, least significant first.            *)
(***************************************************************************)
EXTENDS Integers, Sequences, FiniteSets, TLC

VARIABLES variant, env, pc, cfg, region, bucket, s3Client, req, w, calls, results, session

vars == <<variant, env, pc, cfg, region, bucket, s3Client, req, w, calls, results, session>>

(***************************************************************************)
(* Bounds and input alphabets                                              *)
(***************************************************************************)
\* longest parts list a Complete body carries
MaxParts == 2

Variants == {"main.go", "part_000"}

\* values a client may send as filename / key parameter of the query
Filenames == {"", "a.txt", "uploads/a.txt"}

\* upload ids the client may send; "u1" is the one the backend issues
UploadIds == {"", "u1"}

\* keys a client may send in the Complete body
Keys == {"", "a.txt", "uploads/a.txt"}

ETags == {"e1", "e2"}

\* part numbers a Complete body may carry: repeated and non-contiguous
PartNumbers == {1, 3}

\* partNumber query values, as character sequences
PartNumStrs ==
  { <<>>,
    <<"0">>, <<"1">>, <<"2">>, <<"0","7">>, <<"+","3">>, <<"-","1">>,
    <<"a">>, <<"1","x">>, <<"-">>, <<"1",".","5">>, <<" ","1">>,
    <<"2","1","4","7","4","8","3","6","4","7">>,
    <<"2","1","4","7","4","8","3","6","4","9">>,
    <<"4","2","9","4","9","6","7","2","9","6">>,
    <<"4","2","9","4","9","6","7","2","9","7">>,
    <<"9","2","2","3","3","7","2","0","3","6","8","5","4","7","7","5","8","0","7">>,
    <<"9","2","2","3","3","7","2","0","3","6","8","5","4","7","7","5","8","0","8">>,
    <<"-","9","2","2","3","3","7","2","0","3","6","8","5","4","7","7","5","8","0","9">>,
    <<"9","9","9","9","9","9","9","9","9","9","9","9","9","9","9","9","9","9","9","9","9">> }

\* process environments the service may be started in
Envs ==
  { [AWS_REGION |-> r, AWS_BUCKET_NAME |-> b,
     AWS_ACCESS_KEY_ID |-> "AKIA", AWS_SECRET_ACCESS_KEY |-> "secret"] :
       r \in {"", "us-east-1"}, b \in {"", "my-bucket"} }

\* outcomes of one backend (SDK) call: "" is a nil error
SdkErrs == {"", "AccessDenied"}

(***************************************************************************)
(* strconv.Atoi and the int32 conversion                                   *)
(***************************************************************************)
Limb == 2^16

Zero64 == <<0, 0, 0, 0>>

MaxUint64 == <<Limb - 1, Limb - 1, Limb - 1, Limb - 1>>

\* 1<<63 - 1 and -(1<<63) as two's complement words
MaxInt64 == <<Limb - 1, Limb - 1, Limb - 1, (Limb \div 2) - 1>>

MinInt64 == <<0, 0, 0, Limb \div 2>>

DigitOf ==
  [c \in {"0","1","2","3","4","5","6","7","8","9"} |->
     CASE c = "0" -> 0 [] c = "1" -> 1 [] c = "2" -> 2 [] c = "3" -> 3
       [] c = "4" -> 4 [] c = "5" -> 5 [] c = "6" -> 6 [] c = "7" -> 7
       [] c = "8" -> 8 [] c = "9" -> 9]

IsDigit(c) == c \in DOMAIN DigitOf

\* n*10 + d on a 64-bit unsigned word; overflow when the result needs a 65th bit
MulAdd10(n, d) ==
  LET c0 == n[1] * 10 + d
      c1 == n[2] * 10 + (c0 \div Limb)
      c2 == n[3] * 10 + (c1 \div Limb)
      c3 == n[4] * 10 + (c2 \div Limb)
  IN  [val |-> <<c0 % Limb, c1 % Limb, c2 % Limb, c3 % Limb>>,
       overflow |-> (c3 \div Limb) > 0]

\* two's complement negation of a 64-bit word
Neg64(n) ==
  LET i0 == (Limb - 1 - n[1]) + 1
      i1 == (Limb - 1 - n[2]) + (i0 \div Limb)
      i2 == (Limb - 1 - n[3]) + (i1 \div Limb)
      i3 == (Limb - 1 - n[4]) + (i2 \div Limb)
  IN  <<i0 % Limb, i1 % Limb, i2 % Limb, i3 % Limb>>

RECURSIVE ParseUintFrom(_, _, _)
ParseUintFrom(s, i, n) ==
  IF i > Len(s) THEN [n |-> n, err |-> "nil"]
  ELSE IF ~IsDigit(s[i]) THEN [n |-> Zero64, err |-> "syntax"]
  ELSE LET m == MulAdd10(n, DigitOf[s[i]])
       IN  IF m.overflow THEN [n |-> MaxUint64, err |-> "range"]
           ELSE ParseUintFrom(s, i + 1, m.val)

\* strconv.ParseUint(s, 10, 64)
ParseUint(s) ==
  IF s = <<>> THEN [n |-> Zero64, err |-> "syntax"]
  ELSE ParseUintFrom(s, 1, Zero64)

\* strconv.ParseInt(s, 10, 0) with IntSize = 64
ParseInt(s) ==
  IF s = <<>> THEN [n |-> Zero64, err |-> "syntax"]
  ELSE LET neg  == s[1] = "-"
           rest == IF s[1] \in {"+", "-"} THEN Tail(s) ELSE s
           u    == ParseUint(rest)
           un   == u.n
           half == Limb \div 2
       IN  IF u.err = "syntax" THEN [n |-> Zero64, err |-> "syntax"]
           ELSE IF ~neg /\ un[4] >= half THEN [n |-> MaxInt64, err |-> "range"]
           ELSE IF neg /\ (un[4] > half \/
                           (un[4] = half /\ <<un[1], un[2], un[3]>> # <<0, 0, 0>>))
                THEN [n |-> MinInt64, err |-> "range"]
           ELSE [n |-> IF neg THEN Neg64(un) ELSE un, err |-> "nil"]

\* strconv.Atoi: the fast path for 1..18 characters, ParseInt otherwise
Atoi(s) ==
  IF 0 < Len(s) /\ Len(s) < 19
  THEN LET rest == IF s[1] \in {"+", "-"} THEN Tail(s) ELSE s
           u    == ParseUintFrom(rest, 1, Zero64)
       IN  IF rest = <<>> \/ u.err = "syntax" THEN [n |-> Zero64, err |-> "syntax"]
           ELSE [n |-> IF s[1] = "-" THEN Neg64(u.n) ELSE u.n, err |-> "nil"]
  ELSE ParseInt(s)

\* int32(n): the low 32 bits of the word, read as a signed number
Int32(n) ==
  IF n[2] >= Limb \div 2
  THEN ((n[2] - Limb) * (Limb - 1)) + (n[2] - Limb) + n[1]
  ELSE n[2] * Limb + n[1]

(***************************************************************************)
(* Startup: func main of each build                                        *)
(***************************************************************************)
\* getEnv(key, fallback)
getEnv(key, fallback) == IF env[key] # "" THEN env[key] ELSE fallback

\* the nil *s3.Client and the not yet loaded aws.Config
NoClient == [made |-> FALSE, region |-> "", accessKey |-> "", secretKey |-> ""]

NoConfig == [loaded |-> FALSE, region |-> "", accessKey |-> "", secretKey |-> ""]

\* config.LoadDefaultConfig(WithRegion(rg), WithCredentialsProvider(static(...)))
LoadDefaultConfig(rg) ==
  [loaded |-> TRUE, region |-> rg,
   accessKey |-> getEnv("AWS_ACCESS_KEY_ID", ""),
   secretKey |-> getEnv("AWS_SECRET_ACCESS_KEY", "")]

\* s3.NewFromConfig(cfg)
NewFromConfig(c) ==
  [made |-> TRUE, region |-> c.region, accessKey |-> c.accessKey, secretKey |-> c.secretKey]

NoReq == [endpoint |-> "none"]

NewWriter == [statuses |-> <<>>, body |-> <<>>]

NoSession == [open |-> FALSE, name |-> "", uploadId |-> "", key |-> "", initKey |-> ""]

Init ==
  /\ variant \in Variants
  /\ env \in Envs
  /\ pc = "start"
  /\ cfg = NoConfig
  /\ region = ""
  /\ bucket = ""
  /\ s3Client = NoClient
  /\ req = NoReq
  /\ w = NewWriter
  /\ calls = <<>>
  /\ results = <<>>
  /\ session = NoSession

\* main.go: region and bucket are read first; log.Fatal when either is empty
main_GetEnv ==
  /\ variant = "main.go" /\ pc = "start"
  /\ region' = getEnv("AWS_REGION", "")
  /\ bucket' = getEnv("AWS_BUCKET_NAME", "")
  /\ pc' = IF region' = "" \/ bucket' = "" THEN "fatal" ELSE "loadConfig"
  /\ UNCHANGED <<variant, env, cfg, s3Client, req, w, calls, results, session>>

\* main.go: LoadDefaultConfig with the region just read; log.Fatalf on error
main_LoadConfig ==
  /\ variant = "main.go" /\ pc = "loadConfig"
  /\ \E err \in SdkErrs :
       IF err # ""
       THEN pc' = "fatal" /\ cfg' = cfg
       ELSE pc' = "newClient" /\ cfg' = LoadDefaultConfig(region)
  /\ UNCHANGED <<variant, env, region, bucket, s3Client, req, w, calls, results, session>>

\* main.go: s3Client = s3.NewFromConfig(cfg)
main_NewClient ==
  /\ variant = "main.go" /\ pc = "newClient"
  /\ s3Client' = NewFromConfig(cfg)
  /\ pc' = "listen"
  /\ UNCHANGED <<variant, env, cfg, region, bucket, req, w, calls, results, session>>

\* main.go: the handlers are registered and ListenAndServe starts serving
main_Listen ==
  /\ variant = "main.go" /\ pc = "listen"
  /\ pc' = "listening"
  /\ UNCHANGED <<variant, env, cfg, region, bucket, s3Client, req, w, calls, results, session>>

\* part_000: LoadDefaultConfig runs first, with the package variable region
part000_LoadConfig ==
  /\ variant = "part_000" /\ pc = "start"
  /\ \E err \in SdkErrs :
       IF err # ""
       THEN pc' = "fatal" /\ cfg' = cfg
       ELSE pc' = "newClient" /\ cfg' = LoadDefaultConfig(region)
  /\ UNCHANGED <<variant, env, region, bucket, s3Client, req, w, calls, results, session>>

\* part_000: s3Client = s3.NewFromConfig(cfg)
part000_NewClient ==
  /\ variant = "part_000" /\ pc = "newClient"
  /\ s3Client' = NewFromConfig(cfg)
  /\ pc' = "getEnv"
  /\ UNCHANGED <<variant, env, cfg, region, bucket, req, w, calls, results, session>>

\* part_000: bucket and region are read after the client exists; no check
part000_GetEnv ==
  /\ variant = "part_000" /\ pc = "getEnv"
  /\ bucket' = getEnv("AWS_BUCKET_NAME", bucket)
  /\ region' = getEnv("AWS_REGION", region)
  /\ pc' = "listen"
  /\ UNCHANGED <<variant, env, cfg, s3Client, req, w, calls, results, session>>

\* part_000: the handlers are registered and ListenAndServe starts serving
part000_Listen ==
  /\ variant = "part_000" /\ pc = "listen"
  /\ pc' = "listening"
  /\ UNCHANGED <<variant, env, cfg, region, bucket, s3Client, req, w, calls, results, session>>

(***************************************************************************)
(* net/http, encoding/json and the S3 SDK as the handlers use them         *)
(***************************************************************************)
\* r.URL.Query().Get(k): the empty string when the parameter is absent
Get(q, k) ==
  IF k \in DOMAIN q THEN q[k] ELSE IF k = "partNumber" THEN <<>> ELSE ""

\* w.WriteHeader(code)
WriteHeader(wr, code) == [wr EXCEPT !.statuses = Append(@, code)]

\* w.Write / fmt.Fprint / json.Encoder.Encode: the first write sends 200
\* when no header was written before
Write(wr, chunk) ==
  [statuses |-> IF wr.statuses = <<>> THEN <<200>> ELSE wr.statuses,
   body |-> Append(wr.body, chunk)]

\* http.Error(w, msg, code)
HttpError(wr, msg, code) == Write(WriteHeader(wr, code), [kind |-> "text", text |-> msg])

\* s3.WithPresignExpires(15*time.Minute), in seconds
PresignExpires == 15 * 60

\* the URL a presign client returns for a signing input
PresignedURL(input) == [kind |-> "url", signs |-> input]

\* the backend's answer to CreateMultipartUpload: a fresh upload id and the
\* key of the input (S3 returns the key the upload was opened for)
CreateMultipartUploadOutput(input, sdk) == [UploadId |-> sdk.uploadId, Key |-> input.Key]

\* json.NewDecoder(r.Body).Decode(&payload): absent fields keep zero values
Decode(body) ==
  IF ~body.valid
  THEN [err |-> "invalid character", Key |-> "", UploadId |-> "", Parts |-> <<>>]
  ELSE LET f == body.fields
       IN  [err |-> "",
            Key |-> IF "key" \in DOMAIN f THEN f.key ELSE "",
            UploadId |-> IF "uploadId" \in DOMAIN f THEN f.uploadId ELSE "",
            Parts |-> IF "parts" \in DOMAIN f
                      THEN [i \in 1..Len(f.parts) |->
                              [ETag |-> f.parts[i].eTag,
                               PartNumber |-> f.parts[i].partNumber]]
                      ELSE <<>>]

RECURSIVE InsertByPartNumber(_, _)
InsertByPartNumber(sorted, p) ==
  IF sorted = <<>> THEN <<p>>
  ELSE IF p.PartNumber < Head(sorted).PartNumber THEN <<p>> \o sorted
  ELSE <<Head(sorted)>> \o InsertByPartNumber(Tail(sorted), p)

RECURSIVE SortByPartNumber(_)
SortByPartNumber(parts) ==
  IF parts = <<>> THEN <<>>
  ELSE InsertByPartNumber(SortByPartNumber(Tail(parts)), Head(parts))

\* variation: the parts are put in part-number order before they are sent
CompletedParts_sorted(parts) ==
  SortByPartNumber([i \in 1..Len(parts) |->
                      [ETag |-> parts[i].ETag, PartNumber |-> parts[i].PartNumber]])

\* the loop that fills completedParts from payload.Parts
CompletedParts(parts) ==
  [i \in 1..Len(parts) |-> [ETag |-> parts[i].ETag, PartNumber |-> parts[i].PartNumber]]

(***************************************************************************)
(* Handlers of src/main.go.  A handler maps the request and the outcome    *)
(* the backend would give to the response written and the backend calls    *)
(* made.                                                                   *)
(***************************************************************************)
\* variation: the key is the bare filename, without the uploads/ namespace
handleGenerate_noPrefix(r, sdk) ==
  LET filename == Get(r.query, "filename")
      input == [op |-> "PresignPutObject", Bucket |-> bucket,
                Key |-> filename, Expires |-> PresignExpires]
  IN  IF filename = ""
      THEN [w |-> HttpError(NewWriter, "Missing filename", 400), calls |-> <<>>]
      ELSE IF sdk.err # ""
      THEN [w |-> HttpError(NewWriter, "Failed to generate presigned URL: " \o sdk.err, 500),
            calls |-> <<input>>]
      ELSE [w |-> Write(NewWriter, PresignedURL(input)), calls |-> <<input>>]

handleGenerate(r, sdk) ==
  LET filename == Get(r.query, "filename")
      input == [op |-> "PresignPutObject", Bucket |-> bucket,
                Key |-> "uploads/" \o filename, Expires |-> PresignExpires]
  IN  IF filename = ""
      THEN [w |-> HttpError(NewWriter, "Missing filename", 400), calls |-> <<>>]
      ELSE IF sdk.err # ""
      THEN [w |-> HttpError(NewWriter, "Failed to generate presigned URL: " \o sdk.err, 500),
            calls |-> <<input>>]
      ELSE [w |-> Write(NewWriter, PresignedURL(input)), calls |-> <<input>>]

\* variation: the backend is called before the parameter is checked
handleInitiateMultipart_callsFirst(r, sdk) ==
  LET filename == Get(r.query, "key")
      input == [op |-> "CreateMultipartUpload", Bucket |-> bucket,
                Key |-> "uploads/" \o filename]
      resp == CreateMultipartUploadOutput(input, sdk)
  IN  IF filename = ""
      THEN [w |-> HttpError(NewWriter, "Missing key parameter", 400), calls |-> <<input>>]
      ELSE IF sdk.err # ""
      THEN [w |-> HttpError(NewWriter, "Failed to initiate multipart upload: " \o sdk.err, 500),
            calls |-> <<input>>]
      ELSE [w |-> Write(NewWriter, [kind |-> "json", uploadId |-> resp.UploadId, key |-> resp.Key]),
            calls |-> <<input>>]

handleInitiateMultipart(r, sdk) ==
  LET filename == Get(r.query, "key")
      input == [op |-> "CreateMultipartUpload", Bucket |-> bucket,
                Key |-> "uploads/" \o filename]
      resp == CreateMultipartUploadOutput(input, sdk)
  IN  IF filename = ""
      THEN [w |-> HttpError(NewWriter, "Missing key parameter", 400), calls |-> <<>>]
      ELSE IF sdk.err # ""
      THEN [w |-> HttpError(NewWriter, "Failed to initiate multipart upload: " \o sdk.err, 500),
            calls |-> <<input>>]
      ELSE [w |-> Write(NewWriter, [kind |-> "json", uploadId |-> resp.UploadId, key |-> resp.Key]),
            calls |-> <<input>>]

handlePresignPart(r, sdk) ==
  LET filename == Get(r.query, "filename")
      uploadId == Get(r.query, "uploadId")
      partNumStr == Get(r.query, "partNumber")
      partNumber == Atoi(partNumStr)
      input == [op |-> "PresignUploadPart", Bucket |-> bucket,
                Key |-> "uploads/" \o filename, PartNumber |-> Int32(partNumber.n),
                UploadId |-> uploadId, Expires |-> PresignExpires]
  IN  IF filename = "" \/ uploadId = "" \/ partNumStr = <<>>
      THEN [w |-> HttpError(NewWriter,
                            "Missing required parameters (filename, uploadId, partNumber)", 400),
            calls |-> <<>>]
      ELSE IF partNumber.err # "nil"
      THEN [w |-> HttpError(NewWriter, "Invalid partNumber", 400), calls |-> <<>>]
      ELSE IF sdk.err # ""
      THEN [w |-> HttpError(NewWriter, "Failed to generate presigned part URL: " \o sdk.err, 500),
            calls |-> <<input>>]
      ELSE [w |-> Write(NewWriter, [kind |-> "json", url |-> PresignedURL(input)]),
            calls |-> <<input>>]

\* variation: the emptiness of parts is not checked
handleCompleteMultipart_noPartsCheck(r, sdk) ==
  LET payload == Decode(r.body)
      input == [op |-> "CompleteMultipartUpload", Bucket |-> bucket, Key |-> payload.Key,
                UploadId |-> payload.UploadId, Parts |-> CompletedParts(payload.Parts)]
  IN  IF payload.err # ""
      THEN [w |-> HttpError(NewWriter, "Invalid JSON: " \o payload.err, 400), calls |-> <<>>]
      ELSE IF payload.Key = "" \/ payload.UploadId = ""
      THEN [w |-> HttpError(NewWriter, "Missing required fields (key, uploadId, parts)", 400),
            calls |-> <<>>]
      ELSE IF sdk.err # ""
      THEN [w |-> HttpError(NewWriter, "Failed to complete multipart upload: " \o sdk.err, 500),
            calls |-> <<input>>]
      ELSE [w |-> Write(WriteHeader(NewWriter, 200), [kind |-> "text", text |-> "Upload completed"]),
            calls |-> <<input>>]

\* variation: Complete prefixes the key as Initiate and Presign Part do
handleCompleteMultipart_prefixed(r, sdk) ==
  LET payload == Decode(r.body)
      input == [op |-> "CompleteMultipartUpload", Bucket |-> bucket, Key |-> "uploads/" \o payload.Key,
                UploadId |-> payload.UploadId, Parts |-> CompletedParts(payload.Parts)]
  IN  IF payload.err # ""
      THEN [w |-> HttpError(NewWriter, "Invalid JSON: " \o payload.err, 400), calls |-> <<>>]
      ELSE IF payload.Key = "" \/ payload.UploadId = "" \/ Len(payload.Parts) = 0
      THEN [w |-> HttpError(NewWriter, "Missing required fields (key, uploadId, parts)", 400),
            calls |-> <<>>]
      ELSE IF sdk.err # ""
      THEN [w |-> HttpError(NewWriter, "Failed to complete multipart upload: " \o sdk.err, 500),
            calls |-> <<input>>]
      ELSE [w |-> Write(WriteHeader(NewWriter, 200), [kind |-> "text", text |-> "Upload completed"]),
            calls |-> <<input>>]

handleCompleteMultipart(r, sdk) ==
  LET payload == Decode(r.body)
      input == [op |-> "CompleteMultipartUpload", Bucket |-> bucket, Key |-> payload.Key,
                UploadId |-> payload.UploadId, Parts |-> CompletedParts(payload.Parts)]
  IN  IF payload.err # ""
      THEN [w |-> HttpError(NewWriter, "Invalid JSON: " \o payload.err, 400), calls |-> <<>>]
      ELSE IF payload.Key = "" \/ payload.UploadId = "" \/ Len(payload.Parts) = 0
      THEN [w |-> HttpError(NewWriter, "Missing required fields (key, uploadId, parts)", 400),
            calls |-> <<>>]
      ELSE IF sdk.err # ""
      THEN [w |-> HttpError(NewWriter, "Failed to complete multipart upload: " \o sdk.err, 500),
            calls |-> <<input>>]
      ELSE [w |-> Write(WriteHeader(NewWriter, 200), [kind |-> "text", text |-> "Upload completed"]),
            calls |-> <<input>>]

(***************************************************************************)
(* Handlers of src/unnamed/part_000                                        *)
(***************************************************************************)
part000_handleGenerate(r, sdk) ==
  LET filename == Get(r.query, "filename")
      input == [op |-> "PresignPutObject", Bucket |-> bucket,
                Key |-> "uploads/" \o filename, Expires |-> PresignExpires]
  IN  IF filename = ""
      THEN [w |-> HttpError(NewWriter, "Missing filename", 400), calls |-> <<>>]
      ELSE IF sdk.err # ""
      THEN [w |-> HttpError(NewWriter, sdk.err, 500), calls |-> <<input>>]
      ELSE [w |-> Write(NewWriter, PresignedURL(input)), calls |-> <<input>>]

part000_handleInitiateMultipart(r, sdk) ==
  LET filename == Get(r.query, "filename")
      input == [op |-> "CreateMultipartUpload", Bucket |-> bucket,
                Key |-> "uploads/" \o filename]
      resp == CreateMultipartUploadOutput(input, sdk)
  IN  IF filename = ""
      THEN [w |-> HttpError(NewWriter, "Missing filename", 400), calls |-> <<>>]
      ELSE IF sdk.err # ""
      THEN [w |-> HttpError(NewWriter, sdk.err, 500), calls |-> <<input>>]
      ELSE [w |-> Write(NewWriter, [kind |-> "json", uploadId |-> resp.UploadId, key |-> resp.Key]),
            calls |-> <<input>>]

\* variation: the presence check looks at the parameter text, not at the number
part000_handlePresignPart_checksText(r, sdk) ==
  LET filename == Get(r.query, "filename")
      uploadId == Get(r.query, "uploadId")
      partNumStr == Get(r.query, "partNumber")
      partNumber == Atoi(partNumStr).n
      input == [op |-> "PresignUploadPart", Bucket |-> bucket,
                Key |-> "uploads/" \o filename, PartNumber |-> Int32(partNumber),
                UploadId |-> uploadId, Expires |-> PresignExpires]
  IN  IF filename = "" \/ uploadId = "" \/ partNumStr = <<>>
      THEN [w |-> HttpError(NewWriter, "Missing required parameters", 400), calls |-> <<>>]
      ELSE IF sdk.err # ""
      THEN [w |-> HttpError(NewWriter, sdk.err, 500), calls |-> <<input>>]
      ELSE [w |-> Write(NewWriter, [kind |-> "json", url |-> PresignedURL(input)]),
            calls |-> <<input>>]

\* the parse error is discarded; a failed parse leaves partNumber as returned
part000_handlePresignPart(r, sdk) ==
  LET filename == Get(r.query, "filename")
      uploadId == Get(r.query, "uploadId")
      partNumStr == Get(r.query, "partNumber")
      partNumber == Atoi(partNumStr).n
      input == [op |-> "PresignUploadPart", Bucket |-> bucket,
                Key |-> "uploads/" \o filename, PartNumber |-> Int32(partNumber),
                UploadId |-> uploadId, Expires |-> PresignExpires]
  IN  IF filename = "" \/ uploadId = "" \/ partNumber = Zero64
      THEN [w |-> HttpError(NewWriter, "Missing required parameters", 400), calls |-> <<>>]
      ELSE IF sdk.err # ""
      THEN [w |-> HttpError(NewWriter, sdk.err, 500), calls |-> <<input>>]
      ELSE [w |-> Write(NewWriter, [kind |-> "json", url |-> PresignedURL(input)]),
            calls |-> <<input>>]

\* variation: the error of the backend call is dropped
part000_handleCompleteMultipart_ignoresErr(r, sdk) ==
  LET payload == Decode(r.body)
      input == [op |-> "CompleteMultipartUpload", Bucket |-> bucket, Key |-> payload.Key,
                UploadId |-> payload.UploadId, Parts |-> CompletedParts(payload.Parts)]
  IN  IF payload.err # ""
      THEN [w |-> HttpError(NewWriter, "Invalid JSON", 400), calls |-> <<>>]
      ELSE [w |-> Write(NewWriter, [kind |-> "text", text |-> "Upload completed"]),
            calls |-> <<input>>]

\* no check of key, uploadId or parts after the decode
part000_handleCompleteMultipart(r, sdk) ==
  LET payload == Decode(r.body)
      input == [op |-> "CompleteMultipartUpload", Bucket |-> bucket, Key |-> payload.Key,
                UploadId |-> payload.UploadId, Parts |-> CompletedParts(payload.Parts)]
  IN  IF payload.err # ""
      THEN [w |-> HttpError(NewWriter, "Invalid JSON", 400), calls |-> <<>>]
      ELSE IF sdk.err # ""
      THEN [w |-> HttpError(NewWriter, sdk.err, 500), calls |-> <<input>>]
      ELSE [w |-> Write(NewWriter, [kind |-> "text", text |-> "Upload completed"]),
            calls |-> <<input>>]

(***************************************************************************)
(* Requests the clients send                                               *)
(***************************************************************************)
GenerateQueries ==
  {[filename |-> f] : f \in Filenames} \cup {[other |-> "x"]}

InitiateQueries ==
  {[key |-> f] : f \in Filenames} \cup {[filename |-> f] : f \in Filenames}
    \cup {[key |-> f, filename |-> g] : f \in {"", "a.txt"}, g \in {"", "a.txt"}}

PresignQueries ==
  {[filename |-> f, uploadId |-> u, partNumber |-> p] :
     f \in Filenames, u \in UploadIds, p \in {<<>>, <<"0">>, <<"1">>, <<"a">>}}
    \cup {[filename |-> "a.txt", uploadId |-> "u1", partNumber |-> p] : p \in PartNumStrs}
    \cup {[uploadId |-> "u1", partNumber |-> <<"1">>],
          [filename |-> "a.txt", partNumber |-> <<"1">>],
          [filename |-> "a.txt", uploadId |-> "u1"]}

RECURSIVE SeqsUpTo(_, _)
SeqsUpTo(S, n) ==
  IF n = 0 THEN {<<>>}
  ELSE LET shorter == SeqsUpTo(S, n - 1)
       IN  shorter \cup {Append(q, x) : q \in shorter, x \in S}

JsonParts == {[eTag |-> e, partNumber |-> n] : e \in ETags, n \in PartNumbers}

CompleteBodies ==
  {[valid |-> FALSE, fields |-> [key |-> "a.txt"]]}
    \cup {[valid |-> TRUE, fields |-> [key |-> k, uploadId |-> u, parts |-> ps]] :
            k \in Keys, u \in UploadIds,
            ps \in {<<>>, <<[eTag |-> "e1", partNumber |-> 1]>>}}
    \cup {[valid |-> TRUE, fields |-> [key |-> "uploads/a.txt", uploadId |-> "u1", parts |-> ps]] :
            ps \in SeqsUpTo(JsonParts, MaxParts)}
    \cup {[valid |-> TRUE, fields |-> [key |-> k, uploadId |-> u]] :
            k \in Keys, u \in UploadIds}
    \cup {[valid |-> TRUE, fields |-> [parts |-> <<[eTag |-> "e1", partNumber |-> 1]>>]]}

\* what the backend may answer: an error or not, and the upload id it issues
SdkOutcomes == {[err |-> e, uploadId |-> "u1"] : e \in SdkErrs}

\* the error the backend returned for each call made ("" is nil)
Answers(cs, sdk) == [i \in 1..Len(cs) |-> sdk.err]

(***************************************************************************)
(* Serving: one action per endpoint, dispatching to the running build      *)
(***************************************************************************)
ServeGenerate ==
  /\ pc = "listening"
  /\ \E q \in GenerateQueries, sdk \in SdkOutcomes :
       LET r == [endpoint |-> "generate", query |-> q]
           out == IF variant = "main.go" THEN handleGenerate(r, sdk)
                  ELSE part000_handleGenerate(r, sdk)
       IN  req' = r /\ w' = out.w /\ calls' = out.calls /\ results' = Answers(out.calls, sdk)
  /\ UNCHANGED <<variant, env, pc, cfg, region, bucket, s3Client, session>>

\* a client that gets a 200 keeps the name it asked for and the identifiers
\* of the response; the service keeps nothing
ServeInitiate ==
  /\ pc = "listening"
  /\ \E q \in InitiateQueries, sdk \in SdkOutcomes :
       LET r == [endpoint |-> "initiate", query |-> q]
           out == IF variant = "main.go" THEN handleInitiateMultipart(r, sdk)
                  ELSE part000_handleInitiateMultipart(r, sdk)
       IN  /\ req' = r /\ w' = out.w /\ calls' = out.calls /\ results' = Answers(out.calls, sdk)
           /\ session' = IF out.w.statuses = <<200>>
                         THEN [open |-> TRUE,
                               name |-> Get(q, IF variant = "main.go" THEN "key" ELSE "filename"),
                               uploadId |-> out.w.body[1].uploadId,
                               key |-> out.w.body[1].key,
                               initKey |-> out.calls[1].Key]
                         ELSE session
  /\ UNCHANGED <<variant, env, pc, cfg, region, bucket, s3Client>>

ServePresignPart ==
  /\ pc = "listening"
  /\ \E q \in PresignQueries, sdk \in SdkOutcomes :
       LET r == [endpoint |-> "presigned", query |-> q]
           out == IF variant = "main.go" THEN handlePresignPart(r, sdk)
                  ELSE part000_handlePresignPart(r, sdk)
       IN  req' = r /\ w' = out.w /\ calls' = out.calls /\ results' = Answers(out.calls, sdk)
  /\ UNCHANGED <<variant, env, pc, cfg, region, bucket, s3Client, session>>

ServeComplete ==
  /\ pc = "listening"
  /\ \E b \in CompleteBodies, sdk \in SdkOutcomes :
       LET r == [endpoint |-> "complete", body |-> b]
           out == IF variant = "main.go" THEN handleCompleteMultipart(r, sdk)
                  ELSE part000_handleCompleteMultipart(r, sdk)
       IN  req' = r /\ w' = out.w /\ calls' = out.calls /\ results' = Answers(out.calls, sdk)
  /\ UNCHANGED <<variant, env, pc, cfg, region, bucket, s3Client, session>>

Next ==
  \/ main_GetEnv \/ main_LoadConfig \/ main_NewClient \/ main_Listen
  \/ part000_LoadConfig \/ part000_NewClient \/ part000_GetEnv \/ part000_Listen
  \/ ServeGenerate \/ ServeInitiate \/ ServePresignPart \/ ServeComplete

Spec == Init /\ [][Next]_vars

(***************************************************************************)
(* Properties                                                              *)
(***************************************************************************)
\* the query parameter k of the request last served
Param(k) == Get(req.query, k)

\* the field k of the JSON body last served; "" when absent
BodyField(k) == IF k \in DOMAIN req.body.fields THEN req.body.fields[k] ELSE ""

\* the parts array of the JSON body last served; empty when absent
BodyParts == IF "parts" \in DOMAIN req.body.fields THEN req.body.fields.parts ELSE <<>>

\* an optional sign followed by at least one decimal digit
IsDecimalInteger(s) ==
  LET rest == IF s # <<>> /\ s[1] \in {"+", "-"} THEN Tail(s) ELSE s
  IN  rest # <<>> /\ \A i \in 1..Len(rest) : IsDigit(rest[i])

DigitChar == <<"0", "1", "2", "3", "4", "5", "6", "7", "8", "9">>

\* the decimal text of a natural number
RECURSIVE Itoa(_)
Itoa(n) ==
  IF n < 10 THEN <<DigitChar[n + 1]>>
  ELSE Append(Itoa(n \div 10), DigitChar[(n % 10) + 1])

RECURSIVE StripZeros(_)
StripZeros(s) == IF Len(s) > 1 /\ s[1] = "0" THEN StripZeros(Tail(s)) ELSE s

\* the text of a non-negative decimal integer without sign and leading zeros
Canonical(s) == StripZeros(IF s # <<>> /\ s[1] = "+" THEN Tail(s) ELSE s)

\* C1: on every endpoint and in both builds, a request whose required
\* parameter is missing or empty is answered with 400 (filename on Generate;
\* key in main.go, filename in part_000 on Initiate; filename, uploadId or
\* partNumber on Presign Part; key or uploadId in a decodable Complete body).
C1_MissingParamIs400 ==
  /\ (req.endpoint = "generate" /\ Param("filename") = "") => w.statuses = <<400>>
  /\ (req.endpoint = "initiate"
        /\ Param(IF variant = "main.go" THEN "key" ELSE "filename") = "")
       => w.statuses = <<400>>
  /\ (req.endpoint = "presigned"
        /\ (Param("filename") = "" \/ Param("uploadId") = "" \/ Param("partNumber") = <<>>))
       => w.statuses = <<400>>
  /\ (req.endpoint = "complete" /\ req.body.valid
        /\ (BodyField("key") = "" \/ BodyField("uploadId") = ""))
       => w.statuses = <<400>>

\* C2: whenever Presign Part calls the backend, the part number passed is
\* positive and is the number the client wrote in partNumber.
C2_PartNumberPositiveAndExact ==
  (req.endpoint = "presigned" /\ calls # <<>>)
    => /\ calls[1].PartNumber > 0
       /\ Itoa(calls[1].PartNumber) = Canonical(Param("partNumber"))

C4_EmptyParts ==
  (req.endpoint = "complete" /\ req.body.valid
     /\ BodyField("key") # "" /\ BodyField("uploadId") # "" /\ BodyParts = <<>>)
    => /\ variant = "main.go" => w.statuses = <<400>> /\ calls = <<>>
       /\ variant = "part_000" =>
            /\ Len(calls) = 1
            /\ calls[1].op = "CompleteMultipartUpload"
            /\ calls[1].Parts = <<>>
            /\ w.statuses # <<400>>

\* main.go has rejected a body whose parts array is empty
C4_Witness ==
  /\ variant = "main.go" /\ req.endpoint = "complete" /\ req.body.valid
  /\ BodyField("key") # "" /\ BodyField("uploadId") # ""
  /\ "parts" \in DOMAIN req.body.fields /\ BodyParts = <<>>
  /\ w.statuses = <<400>>

\* C5: the part list a Complete passes to the backend has the length of the
\* client's list and its i-th entry carries the i-th client entry's eTag and
\* partNumber.
C5_PartsPassedInClientOrder ==
  (req.endpoint = "complete" /\ calls # <<>>)
    => /\ Len(calls[1].Parts) = Len(BodyParts)
       /\ \A i \in 1..Len(BodyParts) :
            /\ calls[1].Parts[i].ETag = BodyParts[i].eTag
            /\ calls[1].Parts[i].PartNumber = BodyParts[i].partNumber

\* a list in descending, non-contiguous order has reached the backend
C5_Witness ==
  /\ req.endpoint = "complete" /\ Len(calls) = 1
  /\ BodyParts = <<[eTag |-> "e1", partNumber |-> 3], [eTag |-> "e2", partNumber |-> 1]>>

\* the response of a successful Complete
SuccessWritten ==
  /\ w.statuses = <<200>>
  /\ w.body = <<[kind |-> "text", text |-> "Upload completed"]>>

SuccessBodyWritten ==
  \E i \in 1..Len(w.body) : w.body[i] = [kind |-> "text", text |-> "Upload completed"]

\* C6: Complete answers 200 "Upload completed" exactly when its backend call
\* returned success; when the call fails the answer is 500 and the success
\* body is not written.
C6_CompleteStatusFollowsBackend ==
  req.endpoint = "complete"
    => /\ SuccessWritten <=> (Len(calls) = 1 /\ results = <<"">>)
       /\ (Len(calls) = 1 /\ results[1] # "")
            => w.statuses = <<500>> /\ ~SuccessBodyWritten

\* a Complete whose backend call failed
C6_Witness ==
  /\ req.endpoint = "complete" /\ Len(calls) = 1 /\ results[1] # ""
  /\ w.statuses = <<500>>

\* C7: a successful Generate for filename f has signed a PUT for exactly
\* "uploads/" + f in the configured bucket with a 15 minute expiry and has
\* answered with the signed URL; Presign Part signs with the same expiry.
C7_GenerateSignsUploadsKey ==
  /\ (req.endpoint = "generate" /\ Param("filename") # "" /\ w.statuses = <<200>>)
       => /\ calls = <<[op |-> "PresignPutObject", Bucket |-> bucket,
                        Key |-> "uploads/" \o Param("filename"), Expires |-> 900]>>
          /\ w.body = <<[kind |-> "url", signs |-> calls[1]]>>
  /\ (req.endpoint = "presigned" /\ calls # <<>>)
       => calls[1].op = "PresignUploadPart" /\ calls[1].Expires = 900

\* a Generate that returned a URL
C7_Witness ==
  /\ req.endpoint = "generate" /\ Param("filename") = "a.txt"
  /\ w.statuses = <<200>> /\ Len(calls) = 1

\* C8: on all four endpoints a request answered with 400 has made no backend
\* call, a request that passed validation has made exactly one, and every
\* request has received exactly one status among 400, 500 and 200.
C8_ValidationPrecedesBackend ==
  req.endpoint # "none"
    => /\ Len(w.statuses) = 1
       /\ w.statuses[1] \in {400, 500, 200}
       /\ w.statuses[1] = 400 => calls = <<>>
       /\ w.statuses[1] # 400 => Len(calls) = 1
       /\ Len(results) = Len(calls)
       /\ w.statuses[1] = 500 <=> (Len(calls) = 1 /\ results[1] # "")

\* a rejected Initiate
C8_Witness ==
  /\ req.endpoint = "initiate" /\ w.statuses = <<400>> /\ calls = <<>>

\* the client is inside the session its last Initiate opened
InSessionPresign ==
  /\ session.open /\ req.endpoint = "presigned" /\ calls # <<>>
  /\ Param("filename") = session.name /\ Param("uploadId") = session.uploadId

InSessionComplete ==
  /\ session.open /\ req.endpoint = "complete" /\ calls # <<>>
  /\ BodyField("key") = session.key /\ BodyField("uploadId") = session.uploadId

\* C9: Presign Part with the name given to Initiate and Complete with the key
\* returned by Initiate address the key Initiate opened, "uploads/" + name,
\* and the upload id it returned; Presign Part with the returned key as
\* filename addresses another key.
C9_HandshakeAddressesOneKey ==
  /\ session.open => session.initKey = "uploads/" \o session.name
  /\ InSessionPresign
       => calls[1].Key = session.initKey /\ calls[1].UploadId = session.uploadId
  /\ InSessionComplete
       => calls[1].Key = session.initKey /\ calls[1].UploadId = session.uploadId
  /\ (session.open /\ req.endpoint = "presigned" /\ calls # <<>>
        /\ Param("filename") = session.key)
       => calls[1].Key # session.initKey

\* a Complete sent with the identifiers of the open session
C9_Witness == InSessionComplete /\ session.name = "a.txt"

\* C10: the server listens only with bucket, region and client set, the
\* client built from the AWS_REGION value and bucket holding AWS_BUCKET_NAME.
C10_StartupOrdered ==
  pc = "listening"
    => /\ s3Client.made
       /\ bucket # "" /\ bucket = env.AWS_BUCKET_NAME
       /\ region # ""
       /\ s3Client.region # "" /\ s3Client.region = env.AWS_REGION
====
